---- MODULE Spec2Model ----
(***************************************************************************)
(* Speech analysis pipeline: AnalysisEngine and its four analyzers.        *)
(*                                                                         *)
(* Representation                                                          *)
(*   text       a sequence of one-character strings                        *)
(*   score      a number of tenths            (100.0 is 1000)              *)
(*   duration   a number of hundredths of a second (60 s is 6000)          *)
(*   timestamp  a number of tenths of a second                             *)
(*   optional   <<>> for None, <<x>> for a value x                         *)
(***************************************************************************)
EXTENDS Integers, Sequences, FiniteSets, TLC

VARIABLES pc, arg_transcript, transcript, duration, audio_readable,
          audio_data, power_result, linguistic_result, vocal_result,
          persuasion_result, result, error, calls, fn, args, ret,
          users, recordings, analyses, files, uuid_count, request, response,
          auth_calls

vars == <<pc, arg_transcript, transcript, duration, audio_readable,
          audio_data, power_result, linguistic_result, vocal_result,
          persuasion_result, result, error, calls, fn, args, ret,
          users, recordings, analyses, files, uuid_count, request, response,
          auth_calls>>

engineVars == <<pc, arg_transcript, transcript, duration, audio_readable,
                audio_data, power_result, linguistic_result, vocal_result,
                persuasion_result, result, error, calls>>

harnessVars == <<fn, args, ret>>

\* the database tables, the upload directory and the HTTP requests in hand
apiVars == <<users, recordings, analyses, files, uuid_count, request, response,
             auth_calls>>

None == <<>>
Some(x) == <<x>>

\* ------------------------------------------------------------------------
\* Bounds
\* ------------------------------------------------------------------------
MaxPieces == 4

\* ------------------------------------------------------------------------
\* Text
\* ------------------------------------------------------------------------
LowerAlpha == <<"a","b","c","d","e","f","g","h","i","j","k","l","m",
                "n","o","p","q","r","s","t","u","v","w","x","y","z">>
UpperAlpha == <<"A","B","C","D","E","F","G","H","I","J","K","L","M",
                "N","O","P","Q","R","S","T","U","V","W","X","Y","Z">>
Digits == {"0","1","2","3","4","5","6","7","8","9"}
Whitespace == {" ", "\t", "\n", "\r"}

LowerChar(c) ==
    IF \E i \in 1..26 : UpperAlpha[i] = c
    THEN LowerAlpha[CHOOSE i \in 1..26 : UpperAlpha[i] = c]
    ELSE c

\* str.lower()
Lower(s) == [i \in 1..Len(s) |-> LowerChar(s[i])]

\* \w of the re module, on the characters used here
IsWordChar(c) ==
    \/ \E i \in 1..26 : LowerAlpha[i] = c \/ UpperAlpha[i] = c
    \/ c \in Digits
    \/ c = "_"

\* str.strip() leaves nothing: every character is whitespace
StripIsEmpty(s) == \A i \in 1..Len(s) : s[i] \in Whitespace

\* s[i .. i+Len(p)-1] = p, i counted from 1
MatchAt(s, p, i) ==
    /\ i + Len(p) - 1 <= Len(s)
    /\ \A k \in 1..Len(p) : s[i + k - 1] = p[k]

RECURSIVE CountFrom(_, _, _)
CountFrom(s, p, i) ==
    IF i + Len(p) - 1 > Len(s) THEN 0
    ELSE IF MatchAt(s, p, i) THEN 1 + CountFrom(s, p, i + Len(p))
    ELSE CountFrom(s, p, i + 1)

\* variant: a phrase is counted once however often it occurs
StrCountPresence(s, p) == IF CountFrom(s, p, 1) > 0 THEN 1 ELSE 0

\* str.count(p): non-overlapping occurrences, scanning from the left
StrCount(s, p) == CountFrom(s, p, 1)

\* ------------------------------------------------------------------------
\* Rounding: round(n/d, 0) as Python rounds a float that holds n/d exactly
\* (ties go to the even neighbour); d > 0.
\* ------------------------------------------------------------------------
\* variant: a half always goes up
RoundHalfUp(n, d) ==
    LET q == n \div d
        r == n % d
    IN  IF 2 * r < d THEN q ELSE q + 1

RoundHalfEven(n, d) ==
    LET q == n \div d
        r == n % d
    IN  IF 2 * r < d THEN q
        ELSE IF 2 * r > d THEN q + 1
        ELSE IF q % 2 = 0 THEN q ELSE q + 1

\* ------------------------------------------------------------------------
\* Stable sorts (list.sort is stable, also with reverse=True)
\* ------------------------------------------------------------------------
\* Position of each element after list.sort(key=..., reverse=...): the
\* indices of keys in sorted order; elements with equal keys keep their order.
\* variant: equal keys change places
PrecedesOrEqual(a, b, reverse) == IF reverse THEN a >= b ELSE a <= b

Precedes(a, b, reverse) == IF reverse THEN a > b ELSE a < b

RECURSIVE InsertIndex(_, _, _, _)
InsertIndex(sorted, i, keys, reverse) ==
    IF sorted = <<>> THEN <<i>>
    ELSE IF Precedes(keys[i], keys[Head(sorted)], reverse) THEN <<i>> \o sorted
    ELSE <<Head(sorted)>> \o InsertIndex(Tail(sorted), i, keys, reverse)

RECURSIVE SortIndices(_, _, _, _)
SortIndices(sorted, i, keys, reverse) ==
    IF i > Len(keys) THEN sorted
    ELSE SortIndices(InsertIndex(sorted, i, keys, reverse), i + 1, keys, reverse)

StableSort(s, keys, reverse) ==
    LET order == SortIndices(<<>>, 1, keys, reverse)
    IN  [k \in 1..Len(s) |-> s[order[k]]]

\* ------------------------------------------------------------------------
\* PowerDynamicsAnalyzer
\* ------------------------------------------------------------------------
FILLER_WORDS == <<
    [phrase |-> <<"u","m">>, weight |-> 1],
    [phrase |-> <<"u","h">>, weight |-> 1],
    [phrase |-> <<"l","i","k","e">>, weight |-> 1],
    [phrase |-> <<"y","o","u"," ","k","n","o","w">>, weight |-> 2],
    [phrase |-> <<"k","i","n","d"," ","o","f">>, weight |-> 1],
    [phrase |-> <<"s","o","r","t"," ","o","f">>, weight |-> 1],
    [phrase |-> <<"b","a","s","i","c","a","l","l","y">>, weight |-> 1],
    [phrase |-> <<"l","i","t","e","r","a","l","l","y">>, weight |-> 1],
    [phrase |-> <<"a","c","t","u","a","l","l","y">>, weight |-> 1],
    [phrase |-> <<"r","e","a","l","l","y">>, weight |-> 1] >>

\* variant: the phrases of the filler dictionary are not hedging phrases
HEDGING_PHRASES_only == <<
    [phrase |-> <<"i"," ","t","h","i","n","k">>, weight |-> 2],
    [phrase |-> <<"m","a","y","b","e">>, weight |-> 1],
    [phrase |-> <<"p","o","s","s","i","b","l","y">>, weight |-> 1],
    [phrase |-> <<"p","r","o","b","a","b","l","y">>, weight |-> 1],
    [phrase |-> <<"i"," ","f","e","e","l">>, weight |-> 2],
    [phrase |-> <<"i","n"," ","m","y"," ","o","p","i","n","i","o","n">>, weight |-> 2],
    [phrase |-> <<"i","t"," ","s","e","e","m","s">>, weight |-> 2],
    [phrase |-> <<"i"," ","g","u","e","s","s">>, weight |-> 2] >>

HEDGING_PHRASES == <<
    [phrase |-> <<"i"," ","t","h","i","n","k">>, weight |-> 2],
    [phrase |-> <<"m","a","y","b","e">>, weight |-> 1],
    [phrase |-> <<"p","o","s","s","i","b","l","y">>, weight |-> 1],
    [phrase |-> <<"p","r","o","b","a","b","l","y">>, weight |-> 1],
    [phrase |-> <<"i"," ","f","e","e","l">>, weight |-> 2],
    [phrase |-> <<"i","n"," ","m","y"," ","o","p","i","n","i","o","n">>, weight |-> 2],
    [phrase |-> <<"i","t"," ","s","e","e","m","s">>, weight |-> 2],
    [phrase |-> <<"k","i","n","d"," ","o","f">>, weight |-> 1],
    [phrase |-> <<"s","o","r","t"," ","o","f">>, weight |-> 1],
    [phrase |-> <<"i"," ","g","u","e","s","s">>, weight |-> 2] >>

\* sorted(d.items(), key=lambda x: len(x[0]), reverse=True)
SortedByLength(dict) ==
    StableSort(dict, [i \in 1..Len(dict) |-> Len(dict[i].phrase)], TRUE)

\* The loop of detect_filler_words / detect_hedging_language over the sorted
\* items: the phrases found, in the order they enter the dict
RECURSIVE DetectLoop(_, _)
DetectLoop(text, items) ==
    IF items = <<>> THEN <<>>
    ELSE LET count == StrCount(text, Head(items).phrase)
         IN  (IF count > 0
              THEN <<[phrase |-> Head(items).phrase, count |-> count]>>
              ELSE <<>>) \o DetectLoop(text, Tail(items))

RECURSIVE SumCounts(_)
SumCounts(items) ==
    IF items = <<>> THEN 0 ELSE Head(items).count + SumCounts(Tail(items))

\* variant: the total is the number of distinct phrases found
detect_filler_words_distinct(text) ==
    LET word_counts == DetectLoop(text, SortedByLength(FILLER_WORDS))
    IN  [count |-> Len(word_counts), words |-> word_counts]

detect_filler_words(text) ==
    LET word_counts == DetectLoop(text, SortedByLength(FILLER_WORDS))
    IN  [count |-> SumCounts(word_counts), words |-> word_counts]

detect_hedging_language(text) ==
    LET phrase_counts == DetectLoop(text, SortedByLength(HEDGING_PHRASES))
    IN  [count |-> SumCounts(phrase_counts), phrases |-> phrase_counts]

\* variant: a short duration is not raised to a tenth of a minute
DurationMinutesUnfloored(d) == d

\* duration_minutes = max(duration / 60.0, 0.1), in 1/6000 of a minute
DurationMinutes(d) == IF d > 600 THEN d ELSE 600

\* variant: the thresholds are not strict
RateAtLeast(count, duration_minutes, threshold) ==
    count * 6000 >= threshold * duration_minutes

\* count / duration_minutes > threshold
RateAbove(count, duration_minutes, threshold) ==
    count * 6000 > threshold * duration_minutes

FillerPenalty(filler_count, duration_minutes) ==
    IF RateAbove(filler_count, duration_minutes, 10) THEN 300
    ELSE IF RateAbove(filler_count, duration_minutes, 5) THEN 200
    ELSE IF RateAbove(filler_count, duration_minutes, 2) THEN 100
    ELSE IF RateAbove(filler_count, duration_minutes, 0) THEN 50
    ELSE 0

HedgingPenalty(hedging_count, duration_minutes) ==
    IF RateAbove(hedging_count, duration_minutes, 5) THEN 250
    ELSE IF RateAbove(hedging_count, duration_minutes, 3) THEN 150
    ELSE IF RateAbove(hedging_count, duration_minutes, 1) THEN 80
    ELSE IF RateAbove(hedging_count, duration_minutes, 0) THEN 30
    ELSE 0

Max(a, b) == IF a > b THEN a ELSE b
Min(a, b) == IF a < b THEN a ELSE b

calculate_score(filler_count, hedging_count, upspeak_count, duration_minutes) ==
    LET score == 1000 - FillerPenalty(filler_count, duration_minutes)
                      - HedgingPenalty(hedging_count, duration_minutes)
                      - upspeak_count * 20
    IN  Max(0, Min(1000, score))

\* \b between s[j] and s[j+1] (j = 0 is the start, j = Len(s) the end)
WordBoundary(s, j) ==
    LET left  == j >= 1 /\ IsWordChar(s[j])
        right == j + 1 <= Len(s) /\ IsWordChar(s[j + 1])
    IN  left # right

\* r'\b' + re.escape(pattern) + r'\b' with re.IGNORECASE matches at s[i]
RegexMatchAt(s, pattern, i) ==
    /\ i + Len(pattern) - 1 <= Len(s)
    /\ WordBoundary(s, i - 1)
    /\ \A k \in 1..Len(pattern) : LowerChar(s[i + k - 1]) = LowerChar(pattern[k])
    /\ WordBoundary(s, i + Len(pattern) - 1)

RECURSIVE FindIter(_, _, _)
FindIter(s, pattern, i) ==
    IF i + Len(pattern) - 1 > Len(s) THEN <<>>
    ELSE IF RegexMatchAt(s, pattern, i)
         THEN <<i - 1>> \o FindIter(s, pattern, i + Len(pattern))
         ELSE FindIter(s, pattern, i + 1)

\* match.start() of every match, offsets counted from 0
find_word_positions(text, pattern) == FindIter(text, pattern, 1)

\* variant: the time is taken from a fixed pace of 15 characters a second
calculate_timestamp_fixed_pace(char_position, text, d) ==
    IF Len(text) = 0 THEN 0
    ELSE RoundHalfEven(char_position * 10, 15)

\* variant: the offset is counted from 1
calculate_timestamp_from_one(char_position, text, d) ==
    IF Len(text) = 0 THEN 0
    ELSE RoundHalfEven((char_position + 1) * d, Len(text) * 10)

\* round((char_position / len(transcript)) * duration, 1), in tenths
calculate_timestamp(char_position, text, d) ==
    IF Len(text) = 0 THEN 0
    ELSE RoundHalfEven(char_position * d, Len(text) * 10)

\* max(items, key=lambda x: x[1]): the first item holding the largest count
RECURSIVE MaxFrom(_, _)
MaxFrom(best, items) ==
    IF items = <<>> THEN best
    ELSE MaxFrom(IF Head(items).count > best.count THEN Head(items) ELSE best,
                 Tail(items))

MostCommon(items) == MaxFrom(Head(items), Tail(items))

FirstTimestamp(text, phrase, d) ==
    LET positions == find_word_positions(text, phrase)
    IN  IF positions # <<>>
        THEN calculate_timestamp(positions[1], text, d)
        ELSE 0

\* variant: the severity is the count itself
FillerMomentUncapped(text, filler_words, d) ==
    IF filler_words = <<>> THEN <<>>
    ELSE LET most_common_filler == MostCommon(filler_words)
         IN  IF most_common_filler.count > 3
             THEN <<[timestamp  |-> FirstTimestamp(text, most_common_filler.phrase, d),
                     type       |-> "excessive_fillers",
                     severity   |-> most_common_filler.count,
                     context    |-> most_common_filler,
                     suggestion |-> most_common_filler.phrase]>>
             ELSE <<>>

FillerMoment(text, filler_words, d) ==
    IF filler_words = <<>> THEN <<>>
    ELSE LET most_common_filler == MostCommon(filler_words)
         IN  IF most_common_filler.count > 3
             THEN <<[timestamp  |-> FirstTimestamp(text, most_common_filler.phrase, d),
                     type       |-> "excessive_fillers",
                     severity   |-> Min(10, most_common_filler.count),
                     context    |-> most_common_filler,
                     suggestion |-> most_common_filler.phrase]>>
             ELSE <<>>

\* variant: hedging is flagged at the fillers' threshold
HedgeMomentAboveThree(text, hedging_phrases, d) ==
    IF hedging_phrases = <<>> THEN <<>>
    ELSE LET most_common_hedge == MostCommon(hedging_phrases)
         IN  IF most_common_hedge.count > 3
             THEN <<[timestamp  |-> FirstTimestamp(text, most_common_hedge.phrase, d),
                     type       |-> "hedging",
                     severity   |-> Min(10, most_common_hedge.count + 2),
                     context    |-> most_common_hedge,
                     suggestion |-> most_common_hedge.phrase]>>
             ELSE <<>>

HedgeMoment(text, hedging_phrases, d) ==
    IF hedging_phrases = <<>> THEN <<>>
    ELSE LET most_common_hedge == MostCommon(hedging_phrases)
         IN  IF most_common_hedge.count > 2
             THEN <<[timestamp  |-> FirstTimestamp(text, most_common_hedge.phrase, d),
                     type       |-> "hedging",
                     severity   |-> Min(10, most_common_hedge.count + 2),
                     context    |-> most_common_hedge,
                     suggestion |-> most_common_hedge.phrase]>>
             ELSE <<>>

\* variant: the moments stay in the order they were appended
identify_critical_moments_unsorted(text, filler_words, hedging_phrases, d) ==
    FillerMoment(text, filler_words, d) \o HedgeMoment(text, hedging_phrases, d)

identify_critical_moments(text, filler_words, hedging_phrases, d) ==
    LET critical_moments == FillerMoment(text, filler_words, d)
                            \o HedgeMoment(text, hedging_phrases, d)
    IN  StableSort(critical_moments,
                   [i \in 1..Len(critical_moments) |-> critical_moments[i].timestamp],
                   FALSE)

\* variant: an empty transcript scores nothing
EmptyResultZero ==
    [score              |-> 0,
     filler_words       |-> [count |-> 0, words |-> <<>>, per_minute |-> 0],
     hedging            |-> [count |-> 0, phrases |-> <<>>],
     upspeak_indicators |-> 0,
     critical_moments   |-> <<>>]

\* The result returned for an empty or whitespace-only transcript
EmptyResult ==
    [score              |-> 1000,
     filler_words       |-> [count |-> 0, words |-> <<>>, per_minute |-> 0],
     hedging            |-> [count |-> 0, phrases |-> <<>>],
     upspeak_indicators |-> 0,
     critical_moments   |-> <<>>]

Returned(value) == [error |-> "none", value |-> Some(value)]
Raised(exception) == [error |-> exception, value |-> None]

\* A Python value handed back by a method that may fall off its end
PyNone == [type |-> "NoneType"]
PyInt(n) == [type |-> "int", value |-> n]

\* analyze_prosody: the body is a docstring and pass, so the call returns None
analyze_prosody(audio, text) == PyNone

\* not transcript or not transcript.strip()
IsBlank(text) == text = <<>> \/ StripIsEmpty(text)

\* variant: upspeak is counted when audio is present
PowerAnalyzeWithProsody(text, d, audio) ==
    IF IsBlank(text) THEN Returned(EmptyResult)
    ELSE IF d <= 0 THEN Raised("ValueError")
    ELSE LET normalized == Lower(text)
             filler_result == detect_filler_words(normalized)
             hedging_result == detect_hedging_language(normalized)
             duration_minutes == DurationMinutes(d)
             upspeak_count == IF audio = None THEN 0 ELSE 1
         IN  Returned(
               [score |-> calculate_score(filler_result.count, hedging_result.count,
                                          upspeak_count, duration_minutes),
                filler_words |->
                   [count |-> filler_result.count,
                    words |-> filler_result.words,
                    per_minute |-> RoundHalfEven(filler_result.count * 60000,
                                                 duration_minutes)],
                hedging |-> [count |-> hedging_result.count,
                             phrases |-> hedging_result.phrases],
                upspeak_indicators |-> upspeak_count,
                critical_moments |->
                   identify_critical_moments(text, filler_result.words,
                                             hedging_result.phrases, d)])

PowerAnalyze(text, d, audio) ==
    IF IsBlank(text) THEN Returned(EmptyResult)
    ELSE IF d <= 0 THEN Raised("ValueError")
    ELSE LET normalized == Lower(text)
             filler_result == detect_filler_words(normalized)
             hedging_result == detect_hedging_language(normalized)
             duration_minutes == DurationMinutes(d)
             upspeak_count == 0
         IN  Returned(
               [score |-> calculate_score(filler_result.count, hedging_result.count,
                                          upspeak_count, duration_minutes),
                filler_words |->
                   [count |-> filler_result.count,
                    words |-> filler_result.words,
                    per_minute |-> RoundHalfEven(filler_result.count * 60000,
                                                 duration_minutes)],
                hedging |-> [count |-> hedging_result.count,
                             phrases |-> hedging_result.phrases],
                upspeak_indicators |-> upspeak_count,
                critical_moments |->
                   identify_critical_moments(text, filler_result.words,
                                             hedging_result.phrases, d)])

\* ------------------------------------------------------------------------
\* The other analyzers (fixed results in this code base); scores and metrics
\* in tenths, passive_voice_ratio in hundredths
\* ------------------------------------------------------------------------
LinguisticResult ==
    [score |-> 700, passive_voice_ratio |-> 15, average_sentence_length |-> 125,
     word_diversity_score |-> 680, jargon_overuse_score |-> 150,
     critical_moments |-> <<>>]

LinguisticAnalyze(text, d) == Returned(LinguisticResult)

VocalResult ==
    [score |-> 800, words_per_minute |-> 1450, average_pause_duration |-> 8,
     pace_variance |-> 125, critical_moments |-> <<>>]

\* analyze(self, transcript, duration, audio_data): three required arguments
VocalRequiredArgs == 3

\* Binding the positional arguments of a call to VocalCommandAnalyzer.analyze
VocalAnalyze(positional) ==
    IF Len(positional) # VocalRequiredArgs THEN Raised("TypeError")
    ELSE Returned(VocalResult)

PersuasionResult ==
    [score |-> 750, story_coherence_score |-> 750,
     persuasion_keywords |->
        [call_to_action |-> 3, power_words |-> 2, evidence_indicators |-> 1],
     critical_moments |-> <<>>]

PersuasionAnalyze(text, d) == Returned(PersuasionResult)

\* ------------------------------------------------------------------------
\* AnalysisEngine helpers
\* ------------------------------------------------------------------------
WeightPower == 30
WeightLinguistic == 25
WeightVocal == 20
WeightPersuasion == 25

\* variant: the four rubrics weigh the same
calculate_overall_score_equal(power_score, linguistic_score, vocal_score, persuasion_score) ==
    RoundHalfEven((power_score + linguistic_score + vocal_score + persuasion_score) * 25,
                  100)

\* round(weighted sum, 1); scores and the result in tenths, weights in 1/100
calculate_overall_score(power_score, linguistic_score, vocal_score, persuasion_score) ==
    RoundHalfEven(power_score * WeightPower
                  + linguistic_score * WeightLinguistic
                  + vocal_score * WeightVocal
                  + persuasion_score * WeightPersuasion, 100)

\* x.get("severity", 0)
Severity(m) == IF "severity" \in DOMAIN m THEN m.severity ELSE 0

TopLimit == 10

\* all_moments[:10]
Truncate(s, n) == SubSeq(s, 1, Min(n, Len(s)))

combine_critical_moments(power_moments, linguistic_moments, vocal_moments, persuasion_moments) ==
    LET all_moments == power_moments \o linguistic_moments
                       \o vocal_moments \o persuasion_moments
        sorted == StableSort(all_moments,
                             [i \in 1..Len(all_moments) |-> Severity(all_moments[i])],
                             TRUE)
    IN  Truncate(sorted, TopLimit)

\* variant: both maps of patterns are taken from the filler words
aggregate_patterns_fillers(power_res, linguistic_res, vocal_res, persuasion_res) ==
    [filler_words        |-> power_res.filler_words.words,
     hedging             |-> power_res.filler_words.words,
     persuasion_keywords |-> persuasion_res.persuasion_keywords]

aggregate_patterns(power_res, linguistic_res, vocal_res, persuasion_res) ==
    [filler_words        |-> power_res.filler_words.words,
     hedging             |-> power_res.hedging.phrases,
     persuasion_keywords |-> persuasion_res.persuasion_keywords]

\* Steps 4 to 6 of analyze_audio and its return statement: the composite
\* result built from the results of the four analyzers
ComposeResult(text, power_res, linguistic_res, vocal_res, persuasion_res) ==
    [transcript                 |-> text,
     overall_score              |->
        calculate_overall_score(power_res.score, linguistic_res.score,
                                vocal_res.score, persuasion_res.score),
     power_dynamics_score       |-> power_res.score,
     linguistic_authority_score |-> linguistic_res.score,
     vocal_command_score        |-> vocal_res.score,
     persuasion_influence_score |-> persuasion_res.score,
     filler_words_count         |-> power_res.filler_words.count,
     filler_words_per_minute    |-> power_res.filler_words.per_minute,
     hedging_count              |-> power_res.hedging.count,
     upspeak_indicators         |-> power_res.upspeak_indicators,
     passive_voice_ratio        |-> linguistic_res.passive_voice_ratio,
     average_sentence_length    |-> linguistic_res.average_sentence_length,
     word_diversity_score       |-> linguistic_res.word_diversity_score,
     jargon_overuse_score       |-> linguistic_res.jargon_overuse_score,
     words_per_minute           |-> vocal_res.words_per_minute,
     average_pause_duration     |-> vocal_res.average_pause_duration,
     pace_variance              |-> vocal_res.pace_variance,
     story_coherence_score      |-> persuasion_res.story_coherence_score,
     call_to_action_count       |-> persuasion_res.persuasion_keywords.call_to_action,
     power_words_count          |-> persuasion_res.persuasion_keywords.power_words,
     evidence_indicators_count  |-> persuasion_res.persuasion_keywords.evidence_indicators,
     patterns                   |->
        aggregate_patterns(power_res, linguistic_res, vocal_res, persuasion_res),
     critical_moments           |->
        combine_critical_moments(power_res.critical_moments,
                                 linguistic_res.critical_moments,
                                 vocal_res.critical_moments,
                                 persuasion_res.critical_moments)]

\* variant: the first list is extended and sorted in place
CombineLeavesInPlace(power_moments, linguistic_moments, vocal_moments, persuasion_moments) ==
    LET all_moments == power_moments \o linguistic_moments
                       \o vocal_moments \o persuasion_moments
    IN  <<StableSort(all_moments,
                     [i \in 1..Len(all_moments) |-> Severity(all_moments[i])],
                     TRUE),
          linguistic_moments, vocal_moments, persuasion_moments>>

\* The caller's four lists once _combine_critical_moments is over: the sum
\* a + b + c + d is a new list, and only that list is sorted and sliced
CombineLeaves(power_moments, linguistic_moments, vocal_moments, persuasion_moments) ==
    <<power_moments, linguistic_moments, vocal_moments, persuasion_moments>>

\* ------------------------------------------------------------------------
\* Inputs
\* ------------------------------------------------------------------------
RECURSIVE Repeat(_, _)
Repeat(s, n) == IF n = 0 THEN <<>> ELSE s \o Repeat(s, n - 1)

Um == <<"u","m">>
YouKnow == <<"y","o","u"," ","k","n","o","w">>
Maybe == <<"m","a","y","b","e">>
KindOf == <<"k","i","n","d"," ","o","f">>
Sp == <<" ">>
Comma == <<",", " ">>

Pieces == { Um \o Sp, <<"U","M">>, Maybe \o Sp, KindOf \o Sp, Sp }

RECURSIVE PieceSeqs(_)
PieceSeqs(n) ==
    IF n = 0 THEN {<<>>}
    ELSE LET shorter == PieceSeqs(n - 1)
         IN  shorter \cup {s \o p : s \in shorter, p \in Pieces}

\* "um, you know, um, you know, um, you know, um"
ExampleFillers ==
    Um \o Comma \o YouKnow \o Comma \o Um \o Comma \o YouKnow \o Comma
       \o Um \o Comma \o YouKnow \o Comma \o Um

\* 100 characters, the first "um" at offset 50
ExampleOffset ==
    Repeat(<<"x">>, 49) \o Sp \o Um \o Sp \o Um \o Sp \o Um \o Sp \o Um \o Sp
       \o Repeat(<<"y">>, 38)

\* hedging first, fillers after: both moments are emitted
ExampleBoth ==
    Maybe \o Sp \o Maybe \o Sp \o Maybe \o Sp \o Um \o Sp \o Um \o Sp \o Um \o Sp \o Um

\* eleven fillers and nine hedges: both severities reach the cap
ExampleMany == Repeat(Um \o Sp, 11) \o Repeat(Maybe \o Sp, 9)

\* the only "um" standing as a word of its own is the last one
ExampleLate == Repeat(<<"U","M">>, 5) \o Sp \o Um

\* fillers first, hedging after: the later moment is the more severe one
ExampleRising == Repeat(Um \o Sp, 4) \o Repeat(Maybe \o Sp, 3)

SortOf == <<"s","o","r","t"," ","o","f">>

\* the only matches are the two phrases that are in both dictionaries
ExampleShared == SortOf \o Sp \o KindOf \o Sp \o SortOf

SampleTranscripts ==
    {ExampleFillers, ExampleOffset, ExampleBoth, ExampleMany, ExampleLate,
     ExampleRising, ExampleShared}

Transcripts == PieceSeqs(MaxPieces) \cup SampleTranscripts

\* what the transcription collaborator may hand back
TranscribedTexts == {ExampleFillers, Maybe \o Sp \o Um}

\* Hundredths of a second: -1 s, 0 s, 0.19 s, 6 s, 40 s, 60 s.  The source
\* computes rates and timestamps in binary floating point; with these
\* durations and the transcripts above no float quotient lands on the other
\* side of a threshold or of a rounding tie than the exact quotient, so the
\* integer arithmetic of this module gives the values the source returns.
Durations == {-100, 0, 19, 600, 4000, 6000}

AudioBytes == "audio"

PositiveDurations == {d \in Durations : d > 0}

AudioValues == {None, Some(AudioBytes)}

\* ------------------------------------------------------------------------
\* AnalysisEngine.analyze_audio, step by step
\* ------------------------------------------------------------------------
EngineIdle ==
    /\ pc = "idle"
    /\ arg_transcript = None
    /\ transcript = None
    /\ duration = 0
    /\ audio_readable = FALSE
    /\ audio_data = None
    /\ power_result = None
    /\ linguistic_result = None
    /\ vocal_result = None
    /\ persuasion_result = None
    /\ result = None
    /\ error = "none"
    /\ calls = <<>>

\* an empty database, an empty upload directory and no request in hand
ApiIdle ==
    /\ users = {}
    /\ recordings = {}
    /\ analyses = {}
    /\ files = {}
    /\ uuid_count = 0
    /\ request = [step |-> "none", recording_id |-> 0, duration |-> 0,
                  upload |-> [filename |-> <<>>, file_size |-> 0]]
    /\ response = [op |-> "none", status |-> 0, recording_id |-> 0, user_id |-> 0,
                   upload |-> [filename |-> <<>>, file_size |-> 0]]
    /\ auth_calls = <<>>

Init ==
    /\ EngineIdle
    /\ ApiIdle
    /\ fn = "none"
    /\ args = <<>>
    /\ ret = None

\* the collaborators this call has invoked so far, each with the text it was
\* handed (the transcription service is handed the audio path, and the entry
\* holds the text it gave back)
Invoked(callee, text) == [callee |-> callee, transcript |-> text]

\* a caller invokes analyze_audio(audio_file_path, duration, transcript)
CallWith(supplied, durations) ==
    /\ pc = "idle"
    /\ \E t \in supplied, d \in durations, readable \in BOOLEAN :
          /\ arg_transcript' = t
          /\ transcript' = t
          /\ duration' = d
          /\ audio_readable' = readable
    /\ audio_data' = None
    /\ power_result' = None
    /\ linguistic_result' = None
    /\ vocal_result' = None
    /\ persuasion_result' = None
    /\ result' = None
    /\ error' = "none"
    /\ calls' = <<>>
    /\ pc' = "get_transcript"
    /\ UNCHANGED harnessVars
    /\ UNCHANGED apiVars

Call == CallWith({None} \cup {Some(x) : x \in Transcripts}, Durations)

\* variant: the audio is transcribed even when a transcript is supplied
GetTranscriptAlways ==
    /\ pc = "get_transcript"
    /\ \E t \in TranscribedTexts :
          /\ transcript' = Some(t)
          /\ calls' = Append(calls, Invoked("transcribe", t))
    /\ pc' = "read_audio"
    /\ UNCHANGED <<arg_transcript, duration, audio_readable, audio_data,
                   power_result, linguistic_result, vocal_result,
                   persuasion_result, result, error>>
    /\ UNCHANGED harnessVars
    /\ UNCHANGED apiVars

\* Step 1: if transcript is None: transcript = transcribe(audio_file_path)
GetTranscript ==
    /\ pc = "get_transcript"
    /\ IF transcript = None
       THEN \E t \in TranscribedTexts :
               /\ transcript' = Some(t)
               /\ calls' = Append(calls, Invoked("transcribe", t))
       ELSE UNCHANGED <<transcript, calls>>
    /\ pc' = "read_audio"
    /\ UNCHANGED <<arg_transcript, duration, audio_readable, audio_data,
                   power_result, linguistic_result, vocal_result,
                   persuasion_result, result, error>>
    /\ UNCHANGED harnessVars
    /\ UNCHANGED apiVars

\* Step 2: read the file; a failure is caught and leaves audio_data None
ReadAudio ==
    /\ pc = "read_audio"
    /\ audio_data' = IF audio_readable THEN Some(AudioBytes) ELSE None
    /\ pc' = "power"
    /\ UNCHANGED <<arg_transcript, transcript, duration, audio_readable,
                   power_result, linguistic_result, vocal_result,
                   persuasion_result, result, error, calls>>
    /\ UNCHANGED harnessVars
    /\ UNCHANGED apiVars

\* variant: a failure of the analyzer is swallowed and the perfect result is
\* used in its place
RunPowerTolerant ==
    /\ pc = "power"
    /\ LET r == PowerAnalyze(transcript[1], duration, audio_data)
       IN  /\ power_result' = IF r.error = "none" THEN r.value ELSE Some(EmptyResult)
           /\ error' = "none"
           /\ pc' = "linguistic"
    /\ calls' = Append(calls, Invoked("power", transcript[1]))
    /\ UNCHANGED <<arg_transcript, transcript, duration, audio_readable,
                   audio_data, linguistic_result, vocal_result,
                   persuasion_result, result>>
    /\ UNCHANGED harnessVars
    /\ UNCHANGED apiVars

\* Step 3a: power_dynamics_analyzer.analyze(transcript, duration, audio_data)
RunPower ==
    /\ pc = "power"
    /\ LET r == PowerAnalyze(transcript[1], duration, audio_data)
       IN  /\ power_result' = r.value
           /\ error' = r.error
           /\ pc' = IF r.error = "none" THEN "linguistic" ELSE "raised"
    /\ calls' = Append(calls, Invoked("power", transcript[1]))
    /\ UNCHANGED <<arg_transcript, transcript, duration, audio_readable,
                   audio_data, linguistic_result, vocal_result,
                   persuasion_result, result>>
    /\ UNCHANGED harnessVars
    /\ UNCHANGED apiVars

\* variant: the analyzer is handed the transcript argument as the caller
\* gave it, the empty text when none was given
RunLinguisticSupplied ==
    /\ pc = "linguistic"
    /\ LET text == IF arg_transcript = None THEN <<>> ELSE arg_transcript[1]
           r == LinguisticAnalyze(text, duration)
       IN  /\ linguistic_result' = r.value
           /\ error' = r.error
           /\ pc' = IF r.error = "none" THEN "vocal" ELSE "raised"
           /\ calls' = Append(calls, Invoked("linguistic", text))
    /\ UNCHANGED <<arg_transcript, transcript, duration, audio_readable,
                   audio_data, power_result, vocal_result,
                   persuasion_result, result>>
    /\ UNCHANGED harnessVars
    /\ UNCHANGED apiVars

\* Step 3b: linguistic_authority_analyzer.analyze(transcript, duration)
RunLinguistic ==
    /\ pc = "linguistic"
    /\ LET r == LinguisticAnalyze(transcript[1], duration)
       IN  /\ linguistic_result' = r.value
           /\ error' = r.error
           /\ pc' = IF r.error = "none" THEN "vocal" ELSE "raised"
    /\ calls' = Append(calls, Invoked("linguistic", transcript[1]))
    /\ UNCHANGED <<arg_transcript, transcript, duration, audio_readable,
                   audio_data, power_result, vocal_result,
                   persuasion_result, result>>
    /\ UNCHANGED harnessVars
    /\ UNCHANGED apiVars

\* Step 3c: vocal_command_analyzer.analyze(transcript, duration)
RunVocal ==
    /\ pc = "vocal"
    /\ LET r == VocalAnalyze(<<transcript[1], duration>>)
       IN  /\ vocal_result' = r.value
           /\ error' = r.error
           /\ pc' = IF r.error = "none" THEN "persuasion" ELSE "raised"
    /\ calls' = Append(calls, Invoked("vocal", transcript[1]))
    /\ UNCHANGED <<arg_transcript, transcript, duration, audio_readable,
                   audio_data, power_result, linguistic_result,
                   persuasion_result, result>>
    /\ UNCHANGED harnessVars
    /\ UNCHANGED apiVars

\* the caller has the outcome; the call's frame is dropped (the engine keeps
\* nothing from one call to the next)
Finish ==
    /\ pc \in {"returned", "raised"}
    /\ pc' = "idle"
    /\ arg_transcript' = None
    /\ transcript' = None
    /\ duration' = 0
    /\ audio_readable' = FALSE
    /\ audio_data' = None
    /\ power_result' = None
    /\ linguistic_result' = None
    /\ vocal_result' = None
    /\ persuasion_result' = None
    /\ result' = None
    /\ error' = "none"
    /\ calls' = <<>>
    /\ UNCHANGED harnessVars
    /\ UNCHANGED apiVars

Next ==
    \/ Call
    \/ GetTranscript
    \/ ReadAudio
    \/ RunPower
    \/ RunLinguistic
    \/ RunVocal
    \/ Finish

Spec == Init /\ [][Next]_vars

\* ------------------------------------------------------------------------
\* analyze_audio called again and again on one engine; the caller keeps the
\* arguments and the output of one earlier call (fn, args, ret)
\* ------------------------------------------------------------------------
RepeatSupplied == {None, Some(<<>>), Some(Um \o Sp), Some(ExampleBoth)}

RepeatDurations == {0, 6000}

\* what a call hands back or leaves behind: the exception or the composite
\* result, and each analyzer's result
Output ==
    [error |-> error, result |-> result, power_result |-> power_result,
     linguistic_result |-> linguistic_result, vocal_result |-> vocal_result,
     persuasion_result |-> persuasion_result]

Arguments == <<arg_transcript, duration, audio_readable>>

InitRepeat ==
    /\ EngineIdle
    /\ ApiIdle
    /\ fn = "none"
    /\ args = <<>>
    /\ ret = None

CallRepeat == CallWith(RepeatSupplied, RepeatDurations)

\* the call is over and the caller keeps its arguments and its output
FinishRemembered ==
    /\ pc \in {"returned", "raised"}
    /\ fn = "none"
    /\ fn' = "analyze_audio"
    /\ args' = Arguments
    /\ ret' = Some(Output)
    /\ pc' = "idle"
    /\ arg_transcript' = None
    /\ transcript' = None
    /\ duration' = 0
    /\ audio_readable' = FALSE
    /\ audio_data' = None
    /\ power_result' = None
    /\ linguistic_result' = None
    /\ vocal_result' = None
    /\ persuasion_result' = None
    /\ result' = None
    /\ error' = "none"
    /\ calls' = <<>>
    /\ UNCHANGED apiVars

NextRepeat ==
    \/ CallRepeat
    \/ GetTranscript
    \/ ReadAudio
    \/ RunPower
    \/ RunLinguistic
    \/ RunVocal
    \/ Finish
    \/ FinishRemembered

SpecRepeat == InitRepeat /\ [][NextRepeat]_vars

\* ------------------------------------------------------------------------
\* PowerDynamicsAnalyzer.calculate_score called on its own
\* ------------------------------------------------------------------------
MaxCount == 11

UpspeakCounts == {0, 1, 22, 23, 50}

\* duration_minutes in 1/6000 of a minute: 0.1, 0.5, 1 and 2 minutes
MinuteValues == {600, 3000, 6000, 12000}

InitScore ==
    /\ EngineIdle
    /\ ApiIdle
    /\ fn = "calculate_score"
    /\ args \in (0..MaxCount) \X (0..MaxCount) \X UpspeakCounts \X MinuteValues
    /\ ret = None

CalculateScore ==
    /\ fn = "calculate_score"
    /\ ret = None
    /\ ret' = Some(calculate_score(args[1], args[2], args[3], args[4]))
    /\ UNCHANGED <<fn, args>>
    /\ UNCHANGED engineVars
    /\ UNCHANGED apiVars

NextScore == CalculateScore

SpecScore == InitScore /\ [][NextScore]_vars

\* ------------------------------------------------------------------------
\* Steps 3 to 6 of analyze_audio with the VocalCommand analyzer handed its
\* three arguments: the four analyzers, then the composite result
\* ------------------------------------------------------------------------
\* With the fixed scores of the three other analyzers every weighted sum is
\* an exact half in the second decimal, and for these PowerDynamics scores
\* the floating-point sum of the source falls just below that half: inputs
\* that score so are left out, so that the overall score computed here is
\* the one the source returns
ComposeSkippedScores == {670, 770, 870, 970}

InitCompose ==
    /\ EngineIdle
    /\ ApiIdle
    /\ fn = "compose"
    /\ args \in Transcripts \X PositiveDurations
    /\ ret = None

\* Step 3, the four analyzers on the transcript and the duration
ComposeAnalyze ==
    /\ fn = "compose"
    /\ power_result = None
    /\ power_result' = PowerAnalyze(args[1], args[2], None).value
    /\ power_result'[1].score \notin ComposeSkippedScores
    /\ linguistic_result' = LinguisticAnalyze(args[1], args[2]).value
    /\ vocal_result' = VocalAnalyze(<<args[1], args[2], None>>).value
    /\ persuasion_result' = PersuasionAnalyze(args[1], args[2]).value
    /\ UNCHANGED <<pc, arg_transcript, transcript, duration, audio_readable,
                   audio_data, result, error, calls>>
    /\ UNCHANGED harnessVars
    /\ UNCHANGED apiVars

\* Steps 4 to 6 and the return statement
Compose ==
    /\ fn = "compose"
    /\ power_result # None
    /\ ret = None
    /\ ret' = Some(ComposeResult(args[1], power_result[1], linguistic_result[1],
                                 vocal_result[1], persuasion_result[1]))
    /\ UNCHANGED <<fn, args>>
    /\ UNCHANGED engineVars
    /\ UNCHANGED apiVars

NextCompose ==
    \/ ComposeAnalyze
    \/ Compose

SpecCompose == InitCompose /\ [][NextCompose]_vars

\* ------------------------------------------------------------------------
\* VocalCommandAnalyzer.analyze called on its own, with its three arguments
\* ------------------------------------------------------------------------
InitVocal ==
    /\ EngineIdle
    /\ ApiIdle
    /\ fn = "VocalCommandAnalyzer.analyze"
    /\ args \in Transcripts \X PositiveDurations \X AudioValues
    /\ ret = None

CallVocalAnalyze ==
    /\ fn = "VocalCommandAnalyzer.analyze"
    /\ ret = None
    /\ ret' = Some(VocalAnalyze(<<args[1], args[2], args[3]>>))
    /\ UNCHANGED <<fn, args>>
    /\ UNCHANGED engineVars
    /\ UNCHANGED apiVars

NextVocal == CallVocalAnalyze

SpecVocal == InitVocal /\ [][NextVocal]_vars

\* ------------------------------------------------------------------------
\* PowerDynamicsAnalyzer.analyze_prosody called on its own
\* ------------------------------------------------------------------------
InitProsody ==
    /\ EngineIdle
    /\ ApiIdle
    /\ fn = "analyze_prosody"
    /\ args \in AudioValues \X Transcripts
    /\ ret = None

CallAnalyzeProsody ==
    /\ fn = "analyze_prosody"
    /\ ret = None
    /\ ret' = Some(analyze_prosody(args[1], args[2]))
    /\ UNCHANGED <<fn, args>>
    /\ UNCHANGED engineVars
    /\ UNCHANGED apiVars

NextProsody == CallAnalyzeProsody

SpecProsody == InitProsody /\ [][NextProsody]_vars

\* ------------------------------------------------------------------------
\* AnalysisEngine._calculate_overall_score called on its own
\* ------------------------------------------------------------------------
\* The source adds the four products in binary floating point and rounds the
\* float.  On the inputs below every weighted sum is either held exactly by
\* the floats (so that a half in the second decimal is a true tie) or lies
\* off a tie, and round() returns the tenth computed by RoundHalfEven.
ScoreValues == {0, 250, 450, 700, 750, 800, 900, 1000}

OverallInputs ==
    (ScoreValues \X ScoreValues \X ScoreValues \X ScoreValues)
        \cup ({333} \X ScoreValues \X ScoreValues \X ScoreValues)

InitOverall ==
    /\ EngineIdle
    /\ ApiIdle
    /\ fn = "_calculate_overall_score"
    /\ args \in OverallInputs
    /\ ret = None

CalculateOverall ==
    /\ fn = "_calculate_overall_score"
    /\ ret = None
    /\ ret' = Some(calculate_overall_score(args[1], args[2], args[3], args[4]))
    /\ UNCHANGED <<fn, args>>
    /\ UNCHANGED engineVars
    /\ UNCHANGED apiVars

NextOverall == CalculateOverall

SpecOverall == InitOverall /\ [][NextOverall]_vars

\* ------------------------------------------------------------------------
\* AnalysisEngine._combine_critical_moments called on its own
\* ------------------------------------------------------------------------
MaxMoments == 3

\* the k-th moment of an analyzer's list; context tells the moments apart
Moment(analyzer, k, severity) ==
    [severity |-> severity, context |-> <<analyzer, k>>]

RECURSIVE SeveritySeqs(_, _)
SeveritySeqs(n, values) ==
    IF n = 0 THEN {<<>>}
    ELSE LET shorter == SeveritySeqs(n - 1, values)
         IN  shorter \cup {s \o <<v>> : s \in {t \in shorter : Len(t) = n - 1},
                                        v \in values}

MomentLists(analyzer, values) ==
    { [k \in 1..Len(s) |-> Moment(analyzer, k, s[k])] :
        s \in SeveritySeqs(MaxMoments, values) }

InitCombine ==
    /\ EngineIdle
    /\ ApiIdle
    /\ fn = "_combine_critical_moments"
    /\ args \in MomentLists("power", {5, 9}) \X MomentLists("linguistic", {5, 7})
                \X MomentLists("vocal", {9}) \X MomentLists("persuasion", {5, 9})
    /\ ret = None

CombineCriticalMoments ==
    /\ fn = "_combine_critical_moments"
    /\ ret = None
    /\ ret' = Some(combine_critical_moments(args[1], args[2], args[3], args[4]))
    /\ args' = CombineLeaves(args[1], args[2], args[3], args[4])
    /\ UNCHANGED fn
    /\ UNCHANGED engineVars
    /\ UNCHANGED apiVars

NextCombine == CombineCriticalMoments

SpecCombine == InitCombine /\ [][NextCombine]_vars

\* ------------------------------------------------------------------------
\* Properties
\* ------------------------------------------------------------------------
Finished == pc \in {"returned", "raised"}

\* the call to PowerDynamicsAnalyzer.analyze is over
PowerDone == pc \in {"linguistic", "vocal", "persuasion", "returned", "raised"}

InRange(score) == 0 <= score /\ score <= 1000

\* the count a phrase map holds for a phrase, 0 when the phrase is absent
CountOf(items, phrase) ==
    IF \E i \in 1..Len(items) : items[i].phrase = phrase
    THEN items[CHOOSE i \in 1..Len(items) : items[i].phrase = phrase].count
    ELSE 0

\* C1: for every supplied transcript and every duration > 0, analyze_audio
\* returns a composite result and raises no error, whether or not the audio
\* file can be read.
C1_ReturnsForValidInput ==
    (Finished /\ arg_transcript # None /\ duration > 0)
        => (pc = "returned" /\ error = "none" /\ result # None)

\* C2: for every transcript (an empty or whitespace-only one included) and
\* every duration <= 0, PowerDynamicsAnalyzer.analyze raises the validation
\* failure instead of returning a result, and so does analyze_audio.
C2_NonPositiveDurationRejected ==
    (PowerDone /\ duration <= 0)
        => (power_result = None /\ pc = "raised" /\ error = "ValueError")

\* C3: for every valid input (duration > 0) analyze_audio returns four rubric
\* scores and an overall score that all lie in [0, 100].
C3_ScoresInRange ==
    (Finished /\ duration > 0)
        => /\ result # None
           /\ InRange(result[1].overall_score)
           /\ InRange(result[1].power_dynamics_score)
           /\ InRange(result[1].linguistic_authority_score)
           /\ InRange(result[1].vocal_command_score)
           /\ InRange(result[1].persuasion_influence_score)

C4_Case ==
    /\ PowerDone
    /\ transcript = Some(ExampleFillers)
    /\ duration = 6000

\* C4 as stated: on "um, you know, um, you know, um, you know, um" with 60 s
\* the analyzer counts "um" 4 times and "you know" 3 times, the filler rate
\* falls in the tier '>2' (penalty 10) and the score is 90.0.
C4_Original ==
    C4_Case =>
        /\ power_result # None
        /\ CountOf(power_result[1].filler_words.words, Um) = 4
        /\ CountOf(power_result[1].filler_words.words, YouKnow) = 3
        /\ power_result[1].filler_words.per_minute > 20
        /\ power_result[1].filler_words.per_minute <= 50
        /\ power_result[1].score = 900

\* C4 amended: on that input the analyzer counts "um" 4 times and "you know"
\* 3 times, the filler total is 7 (7.0 per minute), the filler rate falls in
\* the tier '>5' (penalty 20), there is no hedging, and the score is 80.0.
C4_FillerExample ==
    C4_Case =>
        /\ power_result # None
        /\ CountOf(power_result[1].filler_words.words, Um) = 4
        /\ CountOf(power_result[1].filler_words.words, YouKnow) = 3
        /\ power_result[1].filler_words.count = 7
        /\ power_result[1].filler_words.per_minute = 70
        /\ power_result[1].hedging.count = 0
        /\ power_result[1].score = 800

C4_Witness == C4_Case /\ power_result # None

\* the penalty of a rate count / minutes on a ladder of strict thresholds
\* t3 > t2 > t1 > 0: a rate equal to a threshold takes the lower tier
C5_Tier(count, minutes, t3, t2, t1, p4, p3, p2, p1) ==
    LET rate6000 == count * 6000
    IN  CASE rate6000 > t3 * minutes -> p4
          [] rate6000 <= t3 * minutes /\ rate6000 > t2 * minutes -> p3
          [] rate6000 <= t2 * minutes /\ rate6000 > t1 * minutes -> p2
          [] rate6000 <= t1 * minutes /\ rate6000 > 0 -> p1
          [] rate6000 = 0 -> 0

C5_Expected(filler_count, hedging_count, upspeak_count, minutes) ==
    LET F == C5_Tier(filler_count, minutes, 10, 5, 2, 300, 200, 100, 50)
        H == C5_Tier(hedging_count, minutes, 5, 3, 1, 250, 150, 80, 30)
        raw == 1000 - F - H - 20 * upspeak_count
    IN  IF raw < 0 THEN 0 ELSE IF raw > 1000 THEN 1000 ELSE raw

\* C5: calculate_score = clamp(100 - F - H - 2*upspeak, 0, 100), F being
\* 30/20/10/5/0 for fillers per minute >10 / >5 / >2 / >0 / =0 and H being
\* 25/15/8/3/0 for hedging per minute >5 / >3 / >1 / >0 / =0, every threshold
\* strict.
C5_ScoreFormula ==
    (fn = "calculate_score" /\ ret # None)
        => ret[1] = C5_Expected(args[1], args[2], args[3], args[4])

\* a filler rate of exactly 10 per minute with a hedging rate of exactly 5
C5_Witness ==
    /\ fn = "calculate_score"
    /\ ret # None
    /\ args[1] * 6000 = 10 * args[4]
    /\ args[2] * 6000 = 5 * args[4]
    /\ args[3] = 1
    /\ ret[1] = 1000 - 200 - 150 - 20

C7_Case ==
    /\ fn = "_calculate_overall_score"
    /\ ret # None
    /\ args = <<900, 700, 800, 750>>

\* C7 as stated: for (90.0, 70.0, 80.0, 75.0) the weighted sum is 79.25 and
\* the overall score is 79.3 (the half is rounded up).
C7_Original ==
    C7_Case =>
        /\ 30 * args[1] + 25 * args[2] + 20 * args[3] + 25 * args[4] = 79250
        /\ ret[1] = 793

\* C7 amended: for (90.0, 70.0, 80.0, 75.0) the weighted sum is 79.25 and the
\* overall score is 79.2 (round() takes the half to the even digit).
C7_HalfToEven ==
    C7_Case =>
        /\ 30 * args[1] + 25 * args[2] + 20 * args[3] + 25 * args[4] = 79250
        /\ ret[1] = 792

C7_Witness == C7_Case

C8_All == args[1] \o args[2] \o args[3] \o args[4]

\* where a moment of the result sits in the concatenation
C8_Index(m) == CHOOSE j \in 1..Len(C8_All) : C8_All[j] = m

\* a comes before b in the stable severity-descending order
C8_Before(sa, ia, sb, ib) == sa > sb \/ (sa = sb /\ ia < ib)

\* C8: _combine_critical_moments returns the first 10 elements of the stable
\* severity-descending sort of power ++ linguistic ++ vocal ++ persuasion:
\* every element comes from the concatenation, equal severities keep their
\* concatenation order, no omitted moment has a higher severity than an
\* included one, and at most 10 elements are returned.
C8_TopTenStable ==
    (fn = "_combine_critical_moments" /\ ret # None)
        => LET out == ret[1]
               n == Len(out)
               kept == {C8_Index(out[i]) : i \in 1..n}
           IN  /\ n = (IF Len(C8_All) < 10 THEN Len(C8_All) ELSE 10)
               /\ \A i \in 1..n : \E j \in 1..Len(C8_All) : C8_All[j] = out[i]
               /\ \A i \in 1..n : \A k \in (i + 1)..n :
                     C8_Before(out[i].severity, C8_Index(out[i]),
                               out[k].severity, C8_Index(out[k]))
               /\ \A j \in (1..Len(C8_All)) \ kept : \A i \in 1..n :
                     /\ C8_All[j].severity <= out[i].severity
                     /\ C8_Before(out[i].severity, C8_Index(out[i]),
                                  C8_All[j].severity, j)

\* twelve moments, so two are dropped, with equal severities in several lists
C8_Witness ==
    /\ fn = "_combine_critical_moments"
    /\ ret # None
    /\ Len(C8_All) = 12
    /\ Len(ret[1]) = 10
    /\ args[1][1].severity = 5
    /\ args[1][2].severity = 9
    /\ args[2][1].severity = 7
    /\ args[4][3].severity = 9
    /\ ret[1][1] = args[1][2]

C9_Blank(text) == \A i \in 1..Len(text) : text[i] \in {" ", "\t", "\n", "\r"}

\* C9: for an empty or whitespace-only transcript with a valid duration
\* PowerDynamicsAnalyzer.analyze returns score 100.0, filler count 0, hedging
\* count 0, empty phrase maps and an empty critical-moment list.
C9_BlankTranscriptPerfect ==
    (PowerDone /\ C9_Blank(transcript[1]) /\ duration > 0)
        => /\ power_result # None
           /\ power_result[1].score = 1000
           /\ power_result[1].filler_words.count = 0
           /\ power_result[1].filler_words.words = <<>>
           /\ power_result[1].hedging.count = 0
           /\ power_result[1].hedging.phrases = <<>>
           /\ power_result[1].critical_moments = <<>>

\* a whitespace-only transcript of several characters, analysed
C9_Witness ==
    /\ pc = "linguistic"
    /\ Len(transcript[1]) > 1
    /\ C9_Blank(transcript[1])
    /\ duration > 0
    /\ power_result # None

\* offsets (from 0) at which phrase occurs in text as a substring, after
\* lowercasing the text
C10_SubstringOffsets(text, phrase) ==
    { i - 1 : i \in { k \in 1..Len(text) :
                        /\ k + Len(phrase) - 1 <= Len(text)
                        /\ \A c \in 1..Len(phrase) :
                              LowerChar(text[k + c - 1]) = phrase[c] } }

\* offsets (from 0) at which phrase occurs in text as a whole word, letter
\* case ignored: no word character right before it or right after it
C10_WholeWordOffsets(text, phrase) ==
    { o \in C10_SubstringOffsets(text, phrase) :
        /\ o = 0 \/ ~IsWordChar(text[o])
        /\ o + Len(phrase) = Len(text) \/ ~IsWordChar(text[o + Len(phrase) + 1]) }

C10_Least(S) == CHOOSE x \in S : \A y \in S : x <= y

\* round((p / len(transcript)) * duration, 1) in tenths of a second: the
\* tenth nearest to the quotient
C10_IsRounded(t, p, len, d) ==
    /\ 10 * len * t - p * d <= 5 * len
    /\ p * d - 10 * len * t <= 5 * len

C10_Moments == IF power_result = None THEN <<>> ELSE power_result[1].critical_moments

\* C10 as stated: every moment's timestamp is round((p / len) * duration, 1)
\* with p the offset of the first substring occurrence of the reported phrase.
C10_Original ==
    PowerDone =>
        \A i \in 1..Len(C10_Moments) :
            LET m == C10_Moments[i]
                offsets == C10_SubstringOffsets(transcript[1], m.context.phrase)
            IN  /\ offsets # {}
                /\ C10_IsRounded(m.timestamp, C10_Least(offsets),
                                 Len(transcript[1]), duration)

\* C10 amended: every moment's timestamp is round((p / len) * duration, 1)
\* with p the offset of the first whole-word occurrence (letter case ignored)
\* of the reported phrase, and 0.0 when the phrase has no whole-word
\* occurrence; offset 50 of 100 characters with duration 40 gives 20.0.
C10_TimestampOfFirstWholeWord ==
    PowerDone =>
        /\ \A i \in 1..Len(C10_Moments) :
              LET m == C10_Moments[i]
                  offsets == C10_WholeWordOffsets(transcript[1], m.context.phrase)
              IN  IF offsets = {} THEN m.timestamp = 0
                  ELSE C10_IsRounded(m.timestamp, C10_Least(offsets),
                                     Len(transcript[1]), duration)
        /\ (transcript = Some(ExampleOffset) /\ duration = 4000)
              => /\ Len(C10_Moments) = 1
                 /\ C10_Moments[1].context.phrase = Um
                 /\ C10_Moments[1].timestamp = 200

\* the 100-character example: "um" first at offset 50, duration 40 s
C10_Witness ==
    /\ pc = "linguistic"
    /\ transcript = Some(ExampleOffset)
    /\ Len(transcript[1]) = 100
    /\ C10_Least(C10_WholeWordOffsets(transcript[1], Um)) = 50
    /\ duration = 4000
    /\ Len(C10_Moments) = 1


\* ------------------------------------------------------------------------
\* C11
\* ------------------------------------------------------------------------
\* the largest count in a per-phrase map, 0 for an empty map
C11_MaxCount(items) ==
    IF items = <<>> THEN 0
    ELSE CHOOSE c \in {items[i].count : i \in 1..Len(items)} :
            \A i \in 1..Len(items) : items[i].count <= c

C11_OfType(moments, type) == {i \in 1..Len(moments) : moments[i].type = type}

\* the moments of one type: one moment exactly when the most frequent phrase
\* of the map occurs more than threshold times, about such a phrase, with
\* severity min(10, count + bonus)
C11_Rule(moments, type, items, threshold, bonus) ==
    LET most == C11_MaxCount(items)
        found == C11_OfType(moments, type)
    IN  /\ Cardinality(found) = IF most > threshold THEN 1 ELSE 0
        /\ \A i \in found :
              /\ moments[i].severity = IF most + bonus < 10 THEN most + bonus ELSE 10
              /\ moments[i].context.count = most
              /\ CountOf(items, moments[i].context.phrase) = most

\* C11: PowerDynamics emits an excessive_fillers moment exactly when its most
\* frequent filler occurs more than 3 times, with severity min(10, count); a
\* hedging moment exactly when its most frequent hedging phrase occurs more
\* than 2 times, with severity min(10, count + 2); and no other moment.
C11_MomentRules ==
    (PowerDone /\ power_result # None) =>
        LET r == power_result[1]
            moments == r.critical_moments
        IN  /\ C11_Rule(moments, "excessive_fillers", r.filler_words.words, 3, 0)
            /\ C11_Rule(moments, "hedging", r.hedging.phrases, 2, 2)
            /\ \A i \in 1..Len(moments) :
                  moments[i].type \in {"excessive_fillers", "hedging"}

\* eleven "um" and nine "maybe": both moments, both severities capped at 10
C11_Witness ==
    /\ pc = "linguistic"
    /\ transcript = Some(ExampleMany)
    /\ C11_MaxCount(power_result[1].filler_words.words) = 11
    /\ C11_MaxCount(power_result[1].hedging.phrases) = 9
    /\ Len(power_result[1].critical_moments) = 2
    /\ \A i \in 1..2 : power_result[1].critical_moments[i].severity = 10


\* ------------------------------------------------------------------------
\* C12
\* ------------------------------------------------------------------------
\* the largest number of occurrences of a phrase of length len, among those
\* starting at the given offsets, no two of which overlap
C12_NonOverlapping(offsets, len) ==
    LET disjoint(S) == \A a \in S : \A b \in S : a = b \/ a + len <= b \/ b + len <= a
        sizes == {Cardinality(S) : S \in {T \in SUBSET offsets : disjoint(T)}}
    IN  CHOOSE n \in sizes : \A m \in sizes : m <= n

RECURSIVE C12_Sum(_, _)
C12_Sum(items, n) == IF n = 0 THEN 0 ELSE items[n].count + C12_Sum(items, n - 1)

\* a phrase map and its total, against the dictionary it was made from
C12_Counts(text, dict, items, total) ==
    /\ \A i \in 1..Len(dict) :
          CountOf(items, dict[i].phrase) =
             C12_NonOverlapping(C10_SubstringOffsets(text, dict[i].phrase),
                                Len(dict[i].phrase))
    /\ \A i \in 1..Len(items) :
          /\ items[i].count > 0
          /\ \E k \in 1..Len(dict) : dict[k].phrase = items[i].phrase
          /\ \A j \in 1..Len(items) : items[j].phrase = items[i].phrase => j = i
    /\ total = C12_Sum(items, Len(items))

\* C12: each per-phrase count is the number of non-overlapping occurrences of
\* the phrase as a substring of the lowercased transcript, phrases with no
\* occurrence are absent from the map, and the total is the sum of the
\* per-phrase counts; for fillers and for hedging phrases alike.
C12_SubstringCounts ==
    (PowerDone /\ power_result # None) =>
        LET r == power_result[1]
        IN  /\ C12_Counts(transcript[1], FILLER_WORDS,
                          r.filler_words.words, r.filler_words.count)
            /\ C12_Counts(transcript[1], HEDGING_PHRASES,
                          r.hedging.phrases, r.hedging.count)

\* "UM" inside a word and in capitals is counted, "kind of" is counted by
\* both maps, and the other phrases are absent
C12_Witness ==
    /\ pc = "linguistic"
    /\ transcript = Some(<<"U","M">> \o Um \o Sp \o KindOf \o Sp \o KindOf \o Sp)
    /\ power_result[1].filler_words.words =
          <<[phrase |-> KindOf, count |-> 2], [phrase |-> Um, count |-> 2]>>
    /\ power_result[1].filler_words.count = 4
    /\ power_result[1].hedging.phrases = <<[phrase |-> KindOf, count |-> 2]>>
    /\ power_result[1].hedging.count = 2


\* ------------------------------------------------------------------------
\* C13
\* ------------------------------------------------------------------------
\* this call has ended and was given what the remembered earlier call was given
C13_SameInputAgain ==
    /\ Finished
    /\ fn = "analyze_audio"
    /\ args = Arguments

C14_LastCallee == IF calls = <<>> THEN "none" ELSE calls[Len(calls)].callee

\* C14: when an analyzer raises, the call ends at once with that exception
\* (ValueError from PowerDynamics, TypeError from the VocalCommand call), no
\* later analyzer runs and no composite result exists; a composite result
\* exists only when all four analyzers returned.
C14_FailFast ==
    /\ error # "none" => pc = "raised"
    /\ pc = "raised" =>
          /\ result = None
          /\ \/ /\ C14_LastCallee = "power"
                /\ error = "ValueError"
                /\ power_result = None
                /\ linguistic_result = None
                /\ vocal_result = None
                /\ persuasion_result = None
             \/ /\ C14_LastCallee = "vocal"
                /\ error = "TypeError"
                /\ vocal_result = None
                /\ persuasion_result = None
    /\ (PowerDone /\ ~C9_Blank(transcript[1]) /\ duration <= 0) =>
          (pc = "raised" /\ error = "ValueError")
    /\ result # None =>
          /\ error = "none"
          /\ power_result # None
          /\ linguistic_result # None
          /\ vocal_result # None
          /\ persuasion_result # None

\* PowerDynamics raised on a transcribed text and nothing ran after it
C14_Witness ==
    /\ pc = "raised"
    /\ error = "ValueError"
    /\ arg_transcript = None
    /\ C14_LastCallee = "power"
    /\ linguistic_result = None
    /\ result = None


\* ------------------------------------------------------------------------
\* C15
\* ------------------------------------------------------------------------
C15_Analyzers == {"power", "linguistic", "vocal", "persuasion"}

C15_Transcriptions == {i \in 1..Len(calls) : calls[i].callee = "transcribe"}

C15_AnalyzerCalls == {i \in 1..Len(calls) : calls[i].callee \in C15_Analyzers}

\* C15: with a transcript supplied the transcription service is never
\* invoked and every analyzer is handed the supplied text; with none
\* supplied the service is invoked once, before any analyzer, and every
\* analyzer is handed the text it gave back; a composite result carries that
\* same text.
C15_TranscriptFirst ==
    /\ arg_transcript # None =>
          /\ C15_Transcriptions = {}
          /\ \A i \in C15_AnalyzerCalls : calls[i].transcript = arg_transcript[1]
          /\ pc # "idle" => transcript = arg_transcript
    /\ (arg_transcript = None /\ pc \notin {"idle", "get_transcript"}) =>
          /\ C15_Transcriptions = {1}
          /\ transcript = Some(calls[1].transcript)
          /\ \A i \in C15_AnalyzerCalls :
                i > 1 /\ calls[i].transcript = calls[1].transcript
    /\ (arg_transcript = None /\ pc \in {"idle", "get_transcript"}) =>
          calls = <<>>
    /\ result # None => result[1].transcript = transcript[1]

\* no transcript was supplied: the text was obtained first and three
\* analyzers were handed it
C15_Witness ==
    /\ pc = "raised"
    /\ arg_transcript = None
    /\ Len(calls) = 4
    /\ calls[1] = Invoked("transcribe", ExampleFillers)
    /\ \A i \in 2..4 : calls[i].transcript = ExampleFillers
    /\ calls[4].callee = "vocal"


\* ------------------------------------------------------------------------
\* C17
\* ------------------------------------------------------------------------
\* PowerDynamics returned a result for a transcript with content
C17_Analyzed ==
    /\ PowerDone
    /\ power_result # None
    /\ ~C9_Blank(transcript[1])
    /\ duration > 0

\* C17: the per-minute rates are taken over max(duration / 60, 0.1) minutes:
\* for a duration of at most 6 s the rate is 10 x count (the score is the one
\* of C5 for a tenth of a minute and the reported filler rate is 10 x count),
\* for a longer duration it is count / (duration / 60).
C17_RateFloor ==
    C17_Analyzed =>
        LET r == power_result[1]
            count == r.filler_words.count
            per_minute == r.filler_words.per_minute
        IN  IF duration <= 600
            THEN /\ r.score = C5_Expected(count, r.hedging.count, 0, 600)
                 /\ per_minute = 10 * count * 10
            ELSE /\ r.score = C5_Expected(count, r.hedging.count, 0, duration)
                 /\ 2 * per_minute * duration <= 2 * count * 60000 + duration
                 /\ 2 * per_minute * duration >= 2 * count * 60000 - duration

\* one filler and one hedge in 0.19 s: rates of 10 per minute, not of 316
C17_Witness ==
    /\ C17_Analyzed
    /\ duration = 19
    /\ power_result[1].filler_words.count = 1
    /\ power_result[1].hedging.count = 1
    /\ power_result[1].filler_words.per_minute = 100
    /\ power_result[1].score = 1000 - 200 - 250


\* ------------------------------------------------------------------------
\* C18
\* ------------------------------------------------------------------------
C18_SeverityOk(moments) ==
    \A i \in 1..Len(moments) : moments[i].severity \in 1..10

\* C18: every critical moment in a PowerDynamics result, and every critical
\* moment in a composite result, has a whole-number severity from 1 to 10.
C18_SeverityRange ==
    /\ power_result # None => C18_SeverityOk(power_result[1].critical_moments)
    /\ result # None => C18_SeverityOk(result[1].critical_moments)

\* a filler said 11 times is reported with severity 10
C18_Witness ==
    /\ pc = "linguistic"
    /\ duration = 4000
    /\ \E i \in 1..Len(power_result[1].critical_moments) :
          LET m == power_result[1].critical_moments[i]
          IN  /\ m.type = "excessive_fillers"
              /\ m.context.count = 11
              /\ m.severity = 10


\* ------------------------------------------------------------------------
\* C19
\* ------------------------------------------------------------------------
\* the timestamps (tenths of a second) of the moments PowerDynamics emitted
C19_Timestamps ==
    {C10_Moments[i].timestamp : i \in 1..Len(C10_Moments)}

\* C19 as stated: every moment emitted for a valid input has
\* 0 <= timestamp <= duration.
C19_Original ==
    C17_Analyzed => \A t \in C19_Timestamps : 0 <= t /\ 10 * t <= duration

\* C19: every moment emitted for a valid input has
\* 0 <= timestamp < duration + 0.05, and timestamp <= duration when the
\* duration is a whole number of tenths of a second.
C19_TimestampWithinRounding ==
    C17_Analyzed =>
        \A t \in C19_Timestamps :
            /\ 0 <= t
            /\ 10 * t < duration + 5
            /\ duration % 10 = 0 => 10 * t <= duration

\* a moment at 0.2 s in a recording of 0.19 s
C19_Witness ==
    /\ C17_Analyzed
    /\ transcript = Some(ExampleLate)
    /\ duration = 19
    /\ 2 \in C19_Timestamps


\* ------------------------------------------------------------------------
\* C20
\* ------------------------------------------------------------------------
\* C20: the critical moments of a PowerDynamics result are in ascending
\* order of timestamp, whatever their severities.
C20_AscendingTimestamps ==
    \A i \in 1..Len(C10_Moments) : \A j \in 1..Len(C10_Moments) :
        i < j => C10_Moments[i].timestamp <= C10_Moments[j].timestamp

\* the hedging moment, found second, is earlier in the recording and comes
\* first in the list
C20_Witness ==
    /\ pc = "linguistic"
    /\ transcript = Some(ExampleBoth)
    /\ duration = 6000
    /\ Len(C10_Moments) = 2
    /\ C10_Moments[1].type = "hedging"
    /\ C10_Moments[2].type = "excessive_fillers"
    /\ C10_Moments[1].timestamp < C10_Moments[2].timestamp


C22_WordCount(text) ==
    Cardinality({i \in 1..Len(text) :
                    /\ text[i] \notin Whitespace
                    /\ (i = 1 \/ text[i - 1] \in Whitespace)})

\* C22: VocalCommandAnalyzer.analyze reports words_per_minute =
\* word_count(transcript) / (duration / 60), to the tenth reported, for every
\* transcript and every duration > 0.
C22_WordsPerMinute ==
    (fn = "VocalCommandAnalyzer.analyze" /\ ret # None) =>
        /\ ret[1].error = "none"
        /\ LET wpm == ret[1].value[1].words_per_minute
               words == C22_WordCount(args[1])
           IN  /\ 2 * wpm * args[2] <= 2 * words * 60000 + args[2]
               /\ 2 * wpm * args[2] >= 2 * words * 60000 - args[2]

\* ------------------------------------------------------------------------
\* C23
\* ------------------------------------------------------------------------
\* C23: analyze_prosody returns a non-negative integer for every input, and
\* 0 when the audio is absent.
C23_ProsodyCount ==
    (fn = "analyze_prosody" /\ ret # None) =>
        /\ ret[1].type = "int"
        /\ ret[1].value >= 0
        /\ args[1] = None => ret[1].value = 0


C25_Shared == {KindOf, SortOf}

\* the transcript has a match, and every match is of a shared phrase
C25_OnlyShared ==
    LET r == power_result[1]
    IN  /\ r.filler_words.words # <<>>
        /\ \A i \in 1..Len(r.filler_words.words) :
              r.filler_words.words[i].phrase \in C25_Shared
        /\ \A i \in 1..Len(r.hedging.phrases) :
              r.hedging.phrases[i].phrase \in C25_Shared

\* C25: every occurrence of "kind of" and of "sort of" is counted in the
\* filler map and in the hedging map alike, and a transcript whose only
\* matches are these phrases has equal filler and hedging totals and gets a
\* filler deduction and a hedging deduction.
C25_CountedTwice ==
    C17_Analyzed =>
        LET r == power_result[1]
        IN  /\ \A ph \in C25_Shared :
                  /\ CountOf(r.filler_words.words, ph) =
                        Cardinality(C10_SubstringOffsets(transcript[1], ph))
                  /\ CountOf(r.hedging.phrases, ph) =
                        Cardinality(C10_SubstringOffsets(transcript[1], ph))
            /\ C25_OnlyShared =>
                  /\ r.filler_words.count = r.hedging.count
                  /\ r.filler_words.count =
                        Cardinality(C10_SubstringOffsets(transcript[1], KindOf))
                        + Cardinality(C10_SubstringOffsets(transcript[1], SortOf))
                  /\ \E F \in {50, 100, 200, 300} : \E H \in {30, 80, 150, 250} :
                        r.score = 1000 - F - H

\* "sort of kind of sort of" in 40 s: three fillers, three hedges, 4.5 a
\* minute of each, deductions of 10 and 15
C25_Witness ==
    /\ C17_Analyzed
    /\ transcript = Some(ExampleShared)
    /\ duration = 4000
    /\ C25_OnlyShared
    /\ power_result[1].filler_words.count = 3
    /\ power_result[1].hedging.count = 3
    /\ power_result[1].score = 1000 - 100 - 150


\* ------------------------------------------------------------------------
\* C26
\* ------------------------------------------------------------------------
\* C26: PowerDynamicsAnalyzer.analyze reports upspeak_indicators = 0 with
\* audio and without, so its score is 100 - F - H with F one of 0, 5, 10, 20,
\* 30 and H one of 0, 3, 8, 15, 25, and is never below 45.
C26_NoUpspeak ==
    (PowerDone /\ power_result # None) =>
        LET r == power_result[1]
        IN  /\ r.upspeak_indicators = 0
            /\ \E F \in {0, 50, 100, 200, 300} : \E H \in {0, 30, 80, 150, 250} :
                  r.score = 1000 - F - H
            /\ r.score >= 450

\* audio was read, and the score is the lowest there is
C26_Witness ==
    /\ pc = "linguistic"
    /\ audio_data = Some(AudioBytes)
    /\ power_result[1].upspeak_indicators = 0
    /\ power_result[1].score = 450

\* ---------------------------------------------------------------------------
\* The HTTP API over the engine: core/config.py, core/security.py,
\* models/*.py and api/routes.py.  A User row is [id, username, auth_token],
\* a Recording row [id, user_id, file_path], an AnalysisResult row
\* [recording_id]; files is the set of paths present in the upload directory.
\* A recording id stands for a uuid4 string; a file size is in bytes.
\* ---------------------------------------------------------------------------

SINGLE_USER_TOKEN == "SINGLE_USER_DEV_TOKEN_12345"

MAX_UPLOAD_SIZE == 100 * 1024 * 1024

DefaultEstimate == 3000

allowed_extensions == {<<".","m","4","a">>, <<".","w","a","v">>, <<".","m","p","3">>, <<".","a","a","c">>}

\* ---- inputs ----

MaxUploads == 2

MaxCalls == 2

Tokens == {SINGLE_USER_TOKEN, "SINGLE_USER_DEV_TOKEN_1234", "other-user-token"}

Filenames == {<<"a",".","w","a","v">>, <<"a",".","W","A","V">>, <<"a",".","t","x","t">>, <<"w","a","v">>, <<".","w","a","v">>}

FileSizes == {1024, MAX_UPLOAD_SIZE, MAX_UPLOAD_SIZE + 1}

\* what librosa measures for the saved file; None when librosa.load raises
LoadedDurations == {None, Some(0), Some(4000)}

\* rows of a second account and its recording, already in the database
OtherUser == [id |-> 7, username |-> "other_user", auth_token |-> "other-user-token"]

OtherRecording == [id |-> 0, user_id |-> 7, file_path |-> <<0, <<".","w","a","v">>>>]

RecordingIds == 0..(MaxUploads + 1)

\* ---- models/user.py and core/security.py ----

\* db.query(User).filter(User.auth_token == token).first()
first_user(table, token) ==
    LET found == {u \in table : u.auth_token = token}
    IN  IF found = {} THEN None
        ELSE Some(CHOOSE u \in found : \A v \in found : u.id <= v.id)

\* the autoincrement primary key of the next row
next_user_id(table) ==
    IF table = {} THEN 1
    ELSE 1 + (CHOOSE n \in {u.id : u \in table} : \A u \in table : u.id <= n)

add_user_unconstrained(table, token) ==
    LET user == [id |-> next_user_id(table), username |-> "default_user", auth_token |-> token]
    IN  [error |-> "none", user |-> Some(user), table |-> table \cup {user}]

\* db.add(User(username="default_user", auth_token=token)); db.commit();
\* db.refresh(user): the username column is unique
add_user(table, token) ==
    IF \E u \in table : u.username = "default_user"
    THEN [error |-> "IntegrityError", user |-> None, table |-> table]
    ELSE add_user_unconstrained(table, token)

\* verify_token run from its first line to its last with no other call between
verify_token(token, table) ==
    IF token # SINGLE_USER_TOKEN
    THEN [status |-> 401, user |-> None, table |-> table]
    ELSE LET user == first_user(table, token)
         IN  IF user # None
             THEN [status |-> 200, user |-> user, table |-> table]
             ELSE LET added == add_user(table, token)
                  IN  IF added.error = "none"
                      THEN [status |-> 200, user |-> added.user, table |-> added.table]
                      ELSE [status |-> 500, user |-> None, table |-> table]

\* ---- api/routes.py ----

LastDot(name) ==
    IF \E i \in 1..Len(name) : name[i] = "."
    THEN CHOOSE i \in 1..Len(name) : name[i] = "." /\ \A k \in (i + 1)..Len(name) : name[k] # "."
    ELSE 0

\* os.path.splitext(filename)[1] of a name without directory part
splitext_ext(name) ==
    LET dot == LastDot(name)
    IN  IF dot = 0 \/ \A k \in 1..(dot - 1) : name[k] = "." THEN <<>>
        ELSE SubSeq(name, dot, Len(name))

\* db.query(Recording).filter(Recording.id == recording_id,
\*                            Recording.user_id == current_user.id).first()
query_recording_any_owner(table, recording_id, user_id) ==
    LET found == {r \in table : r.id = recording_id}
    IN  IF found = {} THEN None ELSE Some(CHOOSE r \in found : TRUE)

query_recording(table, recording_id, user_id) ==
    LET found == {r \in table : r.id = recording_id /\ r.user_id = user_id}
    IN  IF found = {} THEN None ELSE Some(CHOOSE r \in found : TRUE)

\* the multipart file of a request: its name and the length of its content
NoUpload == [filename |-> <<>>, file_size |-> 0]

Respond(op, status, recording_id, user_id, upload) ==
    response' = [op |-> op, status |-> status, recording_id |-> recording_id,
                 user_id |-> user_id, upload |-> upload]

NoRequest == [step |-> "none", recording_id |-> 0, duration |-> 0, upload |-> NoUpload]

NoResponse == [op |-> "none", status |-> 0, recording_id |-> 0, user_id |-> 0, upload |-> NoUpload]

os_remove_skipped(path, directory) == directory

\* os.remove(path) on the upload directory
os_remove(path, directory) == directory \ {path}

\* POST /analyze up to the call of the engine: authentication, the extension
\* check, the save to disk, the size check, the metadata and the Recording row
analyze_audio_begin ==
    /\ request.step = "none"
    /\ pc = "idle"
    /\ \E token \in Tokens, filename \in Filenames, file_size \in FileSizes, loaded \in LoadedDurations :
          LET auth == verify_token(token, users)
              file_ext == Lower(splitext_ext(filename))
              recording_id == uuid_count + 1
              file_path == <<recording_id, file_ext>>
              written == files \cup {file_path}
              upload == [filename |-> filename, file_size |-> file_size]
          IN  /\ users' = auth.table
              /\ IF auth.status # 200
                 THEN /\ Respond("analyze_audio", auth.status, 0, 0, upload)
                      /\ UNCHANGED <<recordings, files, uuid_count, request>>
                 ELSE IF file_ext \notin allowed_extensions
                 THEN /\ Respond("analyze_audio", 400, 0, auth.user[1].id, upload)
                      /\ UNCHANGED <<recordings, files, uuid_count, request>>
                 ELSE IF file_size > MAX_UPLOAD_SIZE
                 THEN /\ uuid_count < MaxUploads
                      /\ uuid_count' = recording_id
                      /\ files' = os_remove(file_path, written)
                      /\ Respond("analyze_audio", 413, recording_id, auth.user[1].id, upload)
                      /\ UNCHANGED <<recordings, request>>
                 ELSE /\ uuid_count < MaxUploads
                      /\ uuid_count' = recording_id
                      /\ files' = written
                      /\ recordings' = recordings \cup
                            {[id |-> recording_id, user_id |-> auth.user[1].id, file_path |-> file_path]}
                      /\ request' = [step |-> "analysis", recording_id |-> recording_id,
                                     duration |-> IF loaded = None THEN DefaultEstimate ELSE loaded[1],
                                     upload |-> upload]
                      /\ response' = NoResponse
    /\ UNCHANGED <<analyses, auth_calls>>
    /\ UNCHANGED engineVars
    /\ UNCHANGED harnessVars

\* analysis_engine.analyze_audio(audio_file_path=file_path, duration=duration)
analyze_audio_call ==
    /\ request.step = "analysis"
    /\ CallWith({None}, {request.duration})

\* POST /analyze after the engine: the AnalysisResult row and status 201, or
\* the except Exception handler and status 500
analyze_audio_end ==
    /\ request.step = "analysis"
    /\ pc \in {"returned", "raised"}
    /\ LET recording == CHOOSE r \in recordings : r.id = request.recording_id
       IN  IF pc = "returned"
           THEN /\ analyses' = analyses \cup {[recording_id |-> recording.id]}
                /\ Respond("analyze_audio", 201, recording.id, recording.user_id, request.upload)
                /\ UNCHANGED <<recordings, files>>
           ELSE /\ files' = os_remove(recording.file_path, files)
                /\ Respond("analyze_audio", 500, recording.id, recording.user_id, request.upload)
                /\ UNCHANGED <<recordings, analyses>>
    /\ request' = NoRequest
    /\ pc' = "idle"
    /\ arg_transcript' = None
    /\ transcript' = None
    /\ duration' = 0
    /\ audio_readable' = FALSE
    /\ audio_data' = None
    /\ power_result' = None
    /\ linguistic_result' = None
    /\ vocal_result' = None
    /\ persuasion_result' = None
    /\ result' = None
    /\ error' = "none"
    /\ calls' = <<>>
    /\ UNCHANGED <<users, uuid_count, auth_calls>>
    /\ UNCHANGED harnessVars

\* DELETE /recordings/{recording_id}
delete_recording ==
    /\ request.step = "none"
    /\ \E token \in Tokens, recording_id \in RecordingIds, removable \in BOOLEAN :
          LET auth == verify_token(token, users)
          IN  /\ users' = auth.table
              /\ IF auth.status # 200
                 THEN /\ Respond("delete_recording", auth.status, recording_id, 0, NoUpload)
                      /\ UNCHANGED <<recordings, analyses, files>>
                 ELSE LET recording == query_recording(recordings, recording_id, auth.user[1].id)
                      IN  IF recording = None
                          THEN /\ Respond("delete_recording", 404, recording_id, auth.user[1].id, NoUpload)
                               /\ UNCHANGED <<recordings, analyses, files>>
                          ELSE /\ files' = IF removable THEN os_remove(recording[1].file_path, files) ELSE files
                               /\ recordings' = recordings \ {recording[1]}
                               /\ analyses' = {a \in analyses : a.recording_id # recording[1].id}
                               /\ Respond("delete_recording", 200, recording_id, auth.user[1].id, NoUpload)
    /\ UNCHANGED <<uuid_count, request, auth_calls>>
    /\ UNCHANGED engineVars
    /\ UNCHANGED harnessVars

\* GET /recordings/{recording_id}/analysis
get_analysis ==
    /\ request.step = "none"
    /\ \E token \in Tokens, recording_id \in RecordingIds :
          LET auth == verify_token(token, users)
          IN  /\ users' = auth.table
              /\ IF auth.status # 200
                 THEN Respond("get_analysis", auth.status, recording_id, 0, NoUpload)
                 ELSE LET recording == query_recording(recordings, recording_id, auth.user[1].id)
                      IN  IF recording = None
                          THEN Respond("get_analysis", 404, recording_id, auth.user[1].id, NoUpload)
                          ELSE IF \A a \in analyses : a.recording_id # recording_id
                          THEN Respond("get_analysis", 404, recording_id, auth.user[1].id, NoUpload)
                          ELSE Respond("get_analysis", 200, recording_id, auth.user[1].id, NoUpload)
    /\ UNCHANGED <<recordings, analyses, files, uuid_count, request, auth_calls>>
    /\ UNCHANGED engineVars
    /\ UNCHANGED harnessVars

\* the database is empty, or holds the rows of the second account
InitApi ==
    /\ EngineIdle
    /\ fn = "none"
    /\ args = <<>>
    /\ ret = None
    /\ \/ users = {} /\ recordings = {} /\ analyses = {} /\ files = {}
       \/ /\ users = {OtherUser}
          /\ recordings = {OtherRecording}
          /\ analyses = {[recording_id |-> OtherRecording.id]}
          /\ files = {OtherRecording.file_path}
    /\ uuid_count = 0
    /\ request = NoRequest
    /\ response = NoResponse
    /\ auth_calls = <<>>

NextApi ==
    \/ analyze_audio_begin
    \/ analyze_audio_call
    \/ GetTranscript
    \/ ReadAudio
    \/ RunPower
    \/ RunLinguistic
    \/ RunVocal
    \/ analyze_audio_end
    \/ delete_recording
    \/ get_analysis

SpecApi == InitApi /\ [][NextApi]_vars

\* ---------------------------------------------------------------------------
\* C27: after a POST /analyze request has ended, with a result or with an
\* error, every Recording row in the database still has its audio file in the
\* upload directory.
\* ---------------------------------------------------------------------------

C27_Ended == request.step = "none" /\ response.op = "analyze_audio"

C27_RecordingsKeepFile == C27_Ended => \A r \in recordings : r.file_path \in files

\* ---------------------------------------------------------------------------
\* C28: an authenticated upload with an unsupported extension is answered 400
\* and leaves the upload directory and the recordings and analysis results as
\* they were; one with a supported extension and more than MAX_UPLOAD_SIZE
\* bytes is answered 413, no file of its recording id is on disk afterwards
\* and no Recording or AnalysisResult row is created; an upload that is
\* accepted is neither.  The only row a rejected request can add is the User
\* row that authentication creates.
\* ---------------------------------------------------------------------------

\* a step of POST /analyze that answers the authenticated client at once
C28_Answered ==
    /\ request.step = "none"
    /\ request'.step = "none"
    /\ response'.op = "analyze_audio"
    /\ response'.status # 401

\* a step of POST /analyze that commits the Recording row
C28_Accepted == request.step = "none" /\ request'.step = "analysis"

C28_Supported(upload) == Lower(splitext_ext(upload.filename)) \in allowed_extensions

C28_RowsAndFilesKept == recordings' = recordings /\ analyses' = analyses /\ files' = files

C28_Rejects(kept) ==
    /\ C28_Answered =>
          IF ~C28_Supported(response'.upload)
          THEN response'.status = 400 /\ kept
          ELSE /\ response'.upload.file_size > MAX_UPLOAD_SIZE
               /\ response'.status = 413
               /\ \A path \in files' : path[1] # response'.recording_id
               /\ kept
    /\ C28_Accepted =>
          /\ C28_Supported(request'.upload)
          /\ request'.upload.file_size <= MAX_UPLOAD_SIZE

\* the claim as stated: nothing at all is written to the database
C28_Original == [][C28_Rejects(C28_RowsAndFilesKept /\ users' = users)]_vars

C28_RejectedUploads == [][C28_Rejects(C28_RowsAndFilesKept)]_vars

C28_Witness ==
    /\ response.op = "analyze_audio"
    /\ response.status = 413
    /\ response.upload.file_size > MAX_UPLOAD_SIZE
    /\ \A path \in files : path[1] # response.recording_id
    /\ \A r \in recordings : r.id # response.recording_id

\* ---------------------------------------------------------------------------
\* C29: delete_recording and get_analysis, called by an authenticated user
\* with the id of a recording that is not theirs (it belongs to another user,
\* or no recording has that id), answer 404 and leave the Recording rows, the
\* AnalysisResult rows and the files on disk unchanged.
\* ---------------------------------------------------------------------------

\* a step in which one of the two handlers answers an authenticated user
C29_Handled ==
    /\ request.step = "none"
    /\ request' = request
    /\ response'.op \in {"delete_recording", "get_analysis"}
    /\ response'.status \notin {401, 500}
    /\ <<users, recordings, analyses, files, response>>' # <<users, recordings, analyses, files, response>>

C29_Owned == \E r \in recordings : r.id = response'.recording_id /\ r.user_id = response'.user_id

C29_OnlyOwnRecordings ==
    [][(C29_Handled /\ ~C29_Owned) =>
          /\ response'.status = 404
          /\ recordings' = recordings
          /\ analyses' = analyses
          /\ files' = files]_vars

\* the recording of the other user was asked for and is still there
C29_Witness ==
    /\ response.op = "delete_recording"
    /\ response.status = 404
    /\ response.recording_id = OtherRecording.id
    /\ response.user_id # OtherRecording.user_id
    /\ OtherRecording \in recordings
    /\ OtherRecording.file_path \in files
    /\ [recording_id |-> OtherRecording.id] \in analyses

\* ---------------------------------------------------------------------------
\* Concurrent calls of verify_token.  get_current_user and verify_token are
\* plain functions, which the framework runs in worker threads, each with a
\* database session of its own: the query and the insert of two calls can
\* interleave.  auth_calls[c] is the call in hand in thread c.
\* ---------------------------------------------------------------------------

AuthThreads == 1..MaxCalls

NoCall == [pc |-> "none", token |-> "", user |-> None, status |-> 0]

AuthUnchanged ==
    /\ UNCHANGED <<recordings, analyses, files, uuid_count, request, response>>
    /\ UNCHANGED engineVars
    /\ UNCHANGED harnessVars

\* lines 39-47: the call arrives and the token is compared
verify_token_check ==
    /\ \E c \in AuthThreads, token \in Tokens :
          /\ auth_calls[c].pc \in {"none", "returned", "raised"}
          /\ auth_calls' = [auth_calls EXCEPT ![c] =
                 IF token # SINGLE_USER_TOKEN
                 THEN [pc |-> "raised", token |-> token, user |-> None, status |-> 401]
                 ELSE [pc |-> "query", token |-> token, user |-> None, status |-> 0]]
    /\ UNCHANGED users
    /\ AuthUnchanged

\* line 49, and the return at line 61 when a user was found
verify_token_query ==
    /\ \E c \in AuthThreads :
          /\ auth_calls[c].pc = "query"
          /\ LET user == first_user(users, auth_calls[c].token)
             IN  auth_calls' = [auth_calls EXCEPT ![c] =
                    IF user = None
                    THEN [@ EXCEPT !.pc = "create"]
                    ELSE [@ EXCEPT !.pc = "returned", !.user = user, !.status = 200]]
    /\ UNCHANGED users
    /\ AuthUnchanged

\* lines 51-61: the insert, which the unique username can refuse
verify_token_create ==
    /\ \E c \in AuthThreads :
          /\ auth_calls[c].pc = "create"
          /\ LET added == add_user(users, auth_calls[c].token)
             IN  /\ users' = added.table
                 /\ auth_calls' = [auth_calls EXCEPT ![c] =
                       IF added.error = "none"
                       THEN [@ EXCEPT !.pc = "returned", !.user = added.user, !.status = 200]
                       ELSE [@ EXCEPT !.pc = "raised", !.status = 500]]
    /\ AuthUnchanged

\* no call in hand; the users table is empty or holds the second account
InitAuth ==
    /\ EngineIdle
    /\ fn = "none"
    /\ args = <<>>
    /\ ret = None
    /\ users \in {{}, {OtherUser}}
    /\ recordings = {}
    /\ analyses = {}
    /\ files = {}
    /\ uuid_count = 0
    /\ request = NoRequest
    /\ response = NoResponse
    /\ auth_calls = [c \in AuthThreads |-> NoCall]

NextAuth ==
    \/ verify_token_check
    \/ verify_token_query
    \/ verify_token_create

SpecAuth == InitAuth /\ [][NextAuth]_vars

\* ---------------------------------------------------------------------------
\* C30: whatever the interleaving of verify_token calls, at most one User row
\* carries the configured token; every call made with that token returns
\* that user; a call with another token fails with 401 and adds no User row.
\* ---------------------------------------------------------------------------

C30_Configured == {u \in users : u.auth_token = SINGLE_USER_TOKEN}

C30_Ended(c) == auth_calls[c].pc \in {"returned", "raised"}

C30_SingleUser ==
    /\ Cardinality(C30_Configured) <= 1
    /\ \A c \in AuthThreads : C30_Ended(c) =>
          IF auth_calls[c].token = SINGLE_USER_TOKEN
          THEN /\ auth_calls[c].pc = "returned"
               /\ auth_calls[c].user # None
               /\ auth_calls[c].user[1] \in C30_Configured
          ELSE auth_calls[c].pc = "raised" /\ auth_calls[c].status = 401

====
